---- MODULE Spec2Model ----
(***************************************************************************)
(* A model of the document pipeline of id_app_ocr: the web entry points    *)
(* of app.py, the Celery task process_documents_task of processor.py with  *)
(* the helpers it calls, and the insert of database.py.                    *)
(*                                                                         *)
(* Byte strings are modelled by what the code can tell about them: a file  *)
(* is a record saying whether it decodes as an image or renders as a PDF;  *)
(* text is a sequence of tokens (digit runs with their value and width,    *)
(* letter runs, single punctuation characters); dictionary keys are        *)
(* sequences of characters, so that lower() and `in` are computed.         *)
(***************************************************************************)
EXTENDS Integers, Sequences, FiniteSets, TLC

VARIABLES
    request,                 \* the HTTP request being handled (app.py)
    response,                \* what the route answered: "none" until handled
    state,                   \* Celery task state: NONE, PENDING, PROGRESS, SUCCESS, FAILURE
    status,                  \* meta['status'] of the last update_state
    info,                    \* task.info: the returned result or the raised error text
    pc,                      \* position of the worker inside process_documents_task
    file_contents_dict,      \* argument of the task: key index -> <<filename, bytes>>
    doc_type,                \* argument of the task
    all_image_bytes,         \* local of the task
    original_images_to_save, \* local of the task
    ocr_results,             \* what the enhancer and PaddleOCR did for each image
    raw_text,                \* local of the task
    llm_response,            \* what the generation endpoint did
    structured_data,         \* local of the task
    final_data,              \* local of the task
    face_results,            \* what imdecode and the cascade did for each image
    face_examined,           \* how many images detect_and_crop_face looked at
    face_image_bytes,        \* local of the task
    doc_id,                  \* local of the task: what the insert returned
    documents,               \* rows of the documents table
    events                   \* stages executed and states reported, in order

vars == <<request, response, state, status, info, pc, file_contents_dict, doc_type,
          all_image_bytes, original_images_to_save, ocr_results, raw_text,
          llm_response, structured_data, final_data, face_results, face_examined,
          face_image_bytes, doc_id, documents, events>>

(***************************************************************************)
(* Bounds of the model.                                                    *)
(***************************************************************************)
MaxFiles == 2        \* files in one submission
MaxPages == 2        \* pages of one PDF
MaxOcrImages == 2    \* images in one OCR batch (SpecOcr)
MaxLines == 2        \* lines the recogniser returns for one image
MaxFaceImages == 2   \* images in one face scan (SpecFace)
MaxFaces == 2        \* regions the cascade reports for one image
MaxFields == 2       \* fields of a structured record (SpecDate)

(***************************************************************************)
(* Generic helpers.                                                        *)
(***************************************************************************)
Range(s) == {s[i] : i \in 1..Len(s)}

SeqsUpTo(S, n) == UNION {[1..k -> S] : k \in 0..n}

InjSeqsUpTo(S, n) ==
    {s \in SeqsUpTo(S, n) : \A i, j \in 1..Len(s) : s[i] = s[j] => i = j}

\* Python's `sub in s` for strings, on sequences of characters.
Contains(s, sub) ==
    \E i \in 0..(Len(s) - Len(sub)) : \A j \in 1..Len(sub) : s[i + j] = sub[j]

\* Python's s.endswith(suffix), on sequences of characters.
EndsWith(s, suffix) ==
    /\ Len(s) >= Len(suffix)
    /\ \A j \in 1..Len(suffix) : s[Len(s) - Len(suffix) + j] = suffix[j]

(***************************************************************************)
(* Text: tokens.  Num(n, w) is a run of w digits of value n, Lit(s) a run  *)
(* of letters or one other character.                                      *)
(***************************************************************************)
Num(n, w) == [k |-> "num", n |-> n, w |-> w, s |-> ""]
Lit(s) == [k |-> "lit", n |-> 0, w |-> 0, s |-> s]

\* str.lower() on the characters dictionary keys are written with.
LowerChar(c) ==
    CASE c = "A" -> "a" [] c = "B" -> "b" [] c = "D" -> "d" [] c = "E" -> "e"
      [] c = "F" -> "f" [] c = "G" -> "g" [] c = "J" -> "j" [] c = "O" -> "o"
      [] c = "P" -> "p" [] c = "T" -> "t" [] c = "X" -> "x"
      [] OTHER -> c

Lower(key) == [i \in 1..Len(key) |-> LowerChar(key[i])]

(***************************************************************************)
(* datetime.strptime and strftime (processor.py:168-170).                  *)
(***************************************************************************)
IsLeap(y) == (y % 4 = 0 /\ y % 100 # 0) \/ y % 400 = 0

DaysIn(y, m) ==
    IF m = 2 THEN (IF IsLeap(y) THEN 29 ELSE 28)
    ELSE IF m \in {4, 6, 9, 11} THEN 30 ELSE 31

\* %b and %B match month names without regard to case.
AbbrMonth(s) ==
    CASE s \in {"Feb", "feb", "FEB"} -> 2
      [] s \in {"Mar", "mar", "MAR"} -> 3
      [] s \in {"May", "may", "MAY"} -> 5
      [] s \in {"Dec", "dec", "DEC"} -> 12
      [] OTHER -> 0

FullMonth(s) ==
    CASE s \in {"February", "february"} -> 2
      [] s \in {"March", "march", "MARCH"} -> 3
      [] s \in {"May", "may", "MAY"} -> 5
      [] s \in {"December", "december"} -> 12
      [] OTHER -> 0

\* The five candidate formats, in the order the loop tries them.
DateFormats ==
    << <<"%Y", "-", "%m", "-", "%d">>,
       <<"%d", " ", "%b", " ", "%Y">>,
       <<"%B", " ", "%d", ",", " ", "%Y">>,
       <<"%d", "/", "%m", "/", "%Y">>,
       <<"%m", "/", "%d", "/", "%Y">> >>

\* Whether token t matches directive (or literal) f of a format.
TokenMatches(t, f) ==
    CASE f = "%Y" -> t.k = "num" /\ t.w = 4
      [] f = "%m" -> t.k = "num" /\ ((t.w = 2 /\ t.n \in 1..12) \/ (t.w = 1 /\ t.n \in 1..9))
      [] f = "%d" -> t.k = "num" /\ ((t.w = 2 /\ t.n \in 1..31) \/ (t.w = 1 /\ t.n \in 1..9))
      [] f = "%b" -> t.k = "lit" /\ AbbrMonth(t.s) # 0
      [] f = "%B" -> t.k = "lit" /\ FullMonth(t.s) # 0
      [] OTHER -> t.k = "lit" /\ t.s = f

\* The value a directive reads from the tokens, 0 when the format lacks it.
FieldOf(value, fmt, names) ==
    LET at == {i \in 1..Len(fmt) : fmt[i] \in names}
    IN  IF at = {} THEN 0
        ELSE LET i == CHOOSE i \in at : TRUE
             IN  IF fmt[i] = "%b" THEN AbbrMonth(value[i].s)
                 ELSE IF fmt[i] = "%B" THEN FullMonth(value[i].s)
                 ELSE value[i].n

NoDate == [ok |-> FALSE, y |-> 0, m |-> 0, d |-> 0]

\* datetime.strptime(value, fmt): NoDate stands for ValueError.
strptime(value, fmt) ==
    IF Len(value) # Len(fmt) \/ \E i \in 1..Len(fmt) : ~TokenMatches(value[i], fmt[i])
    THEN NoDate
    ELSE LET y == FieldOf(value, fmt, {"%Y"})
             m == FieldOf(value, fmt, {"%m", "%b", "%B"})
             d == FieldOf(value, fmt, {"%d"})
         IN  IF y < 1 \/ d > DaysIn(y, m) THEN NoDate
             ELSE [ok |-> TRUE, y |-> y, m |-> m, d |-> d]

\* strftime("%m/%d/%Y"): the date written month first.
strftime_month_first(date) ==
    <<Num(date.m, 2), Lit("/"), Num(date.d, 2), Lit("/"), Num(date.y, 4)>>

\* date.strftime("%Y-MM-DD"): only %Y is a directive, MM and DD are copied.
strftime_Y_MM_DD(date) ==
    <<Num(date.y, 4), Lit("-"), Lit("MM"), Lit("-"), Lit("DD")>>

(***************************************************************************)
(* Files and images.  File bytes say what the decoders can make of them:   *)
(* kind "image" opens in PIL, kind "pdf" opens in PyMuPDF with `pages`     *)
(* pages of which page `bad` (0: none) raises while rendering, kind "junk" *)
(* opens in neither.  An image value names the file it came from, the page *)
(* (0 for a file taken as one image) and whether it was re-encoded.        *)
(***************************************************************************)
Bytes(kind, id, pages, bad) == [kind |-> kind, id |-> id, pages |-> pages, bad |-> bad]

ImageOf(src, page, norm) == [src |-> src, page |-> page, norm |-> norm]

\* Image.open(...).convert("RGB") succeeds on image files and rendered pages.
PILDecodes(img) == img.page > 0 \/ img.src.kind = "image"

\* normalize_image: the JPEG re-encoding, or the bytes unchanged on any error.
normalize_image(image_bytes) ==
    IF PILDecodes(image_bytes) THEN [image_bytes EXCEPT !.norm = TRUE] ELSE image_bytes

\* Pages appended before fitz.open or get_pixmap raises, or all of them.
RenderedPages(file_bytes) ==
    IF file_bytes.kind # "pdf" THEN 0
    ELSE IF file_bytes.bad = 0 THEN file_bytes.pages
    ELSE file_bytes.bad - 1

PdfSuffix == <<".", "p", "d", "f">>

process_file_input(file_bytes, filename) ==
    IF EndsWith(Lower(filename), PdfSuffix)
    THEN [p \in 1..RenderedPages(file_bytes) |->
              normalize_image(ImageOf(file_bytes, p, FALSE))]
    ELSE <<normalize_image(ImageOf(file_bytes, 0, FALSE))>>

(***************************************************************************)
(* OCR extraction (processor.py:77-93).  OCR text is a sequence of tokens: *)
(* a page marker, a recognised line, or the newline join() puts between    *)
(* two lines.  Confidences are in hundredths.                              *)
(***************************************************************************)
OCR_CONFIDENCE_THRESHOLD == 80

Marker(n) == [k |-> "marker", n |-> n, s |-> ""]
LineTok(text) == [k |-> "line", n |-> 0, s |-> text]
Newline == [k |-> "nl", n |-> 0, s |-> ""]

OcrLine(text, conf) == [text |-> text, conf |-> conf]

\* What happened for one image: whether the enhancer succeeded, and whether
\* paddle_ocr.ocr raised ("raise"), returned nothing ("none") or lines.
OcrOutcome(enhanced, kind, lines) == [enhanced |-> enhanced, kind |-> kind, lines |-> lines]

RECURSIVE Join(_)
\* "\n".join(texts)
Join(texts) ==
    IF Len(texts) = 0 THEN <<>>
    ELSE IF Len(texts) = 1 THEN <<LineTok(texts[1])>>
    ELSE <<LineTok(texts[1]), Newline>> \o Join(Tail(texts))

\* The comparison written >=.
AtLeastThreshold(line) == line.conf >= OCR_CONFIDENCE_THRESHOLD

\* line[1][1] > OCR_CONFIDENCE_THRESHOLD
HighConfidence(line) == line.conf > OCR_CONFIDENCE_THRESHOLD

high_confidence_texts(lines) ==
    LET kept == SelectSeq(lines, HighConfidence)
    IN  [i \in 1..Len(kept) |-> kept[i].text]

\* The loop body with the separator written inside the try, after the
\* recogniser has answered.
ocr_iteration_marker_in_try(full_text, i, outcome) ==
    IF outcome.kind = "raise" THEN full_text
    ELSE IF outcome.kind = "lines" /\ Len(outcome.lines) > 0
    THEN Append(full_text, Marker(i + 1)) \o Join(high_confidence_texts(outcome.lines))
    ELSE Append(full_text, Marker(i + 1))

\* One pass of the loop body for image number i (0-based, as enumerate gives).
ocr_iteration(full_text, i, outcome) ==
    LET with_sep == Append(full_text, Marker(i + 1))
    IN  IF outcome.kind = "lines" /\ Len(outcome.lines) > 0
        THEN with_sep \o Join(high_confidence_texts(outcome.lines))
        ELSE with_sep

RECURSIVE ocr_loop(_, _, _)
ocr_loop(full_text, i, results) ==
    IF i >= Len(results) THEN full_text
    ELSE ocr_loop(ocr_iteration(full_text, i, results[i + 1]), i + 1, results)

\* results[k] is what the enhancer and the recogniser did for the k-th image.
extract_text_with_paddleocr(ordered_image_bytes, results) ==
    ocr_loop(<<>>, 0, [k \in 1..Len(ordered_image_bytes) |-> results[k]])

(***************************************************************************)
(* Structured data: what json.loads can return.  A dict maps keys          *)
(* (sequences of characters) to values; a str or list only records whether *)
(* "error" is in it, which is all the task asks of it.                     *)
(***************************************************************************)
Str(s) == [t |-> "str", s |-> s]
Null == [t |-> "null", s |-> <<>>]
Number == [t |-> "num", s |-> <<>>]

Dict(fields) == [kind |-> "dict", fields |-> fields, has_error |-> FALSE]
NonDict(kind, has_error) == [kind |-> kind, fields |-> <<>>, has_error |-> has_error]

KError == <<"e", "r", "r", "o", "r">>
DateWord == <<"d", "a", "t", "e">>

(***************************************************************************)
(* The structuring engine (processor.py:95-160).  llm.kind names what the  *)
(* endpoint did: "ok" with the parsed payload, or the exception raised by  *)
(* requests.post, raise_for_status, response.json() or json.loads.         *)
(***************************************************************************)
LlmFailures == {"ConnectionError", "ReadTimeout", "HTTPError", "JSONDecodeError"}

LlmResponse(kind, data) == [kind |-> kind, data |-> data]

ErrorPrefix == Lit("The language model failed to structure the text. Error: ")

b64encode(img) == [b64 |-> img]

\* The except branch with a fixed message, the exception left out.
structure_data_dropping_cause(text, base64_images, llm) ==
    IF llm.kind = "ok" THEN llm.data
    ELSE Dict(KError :> Str(<<ErrorPrefix>>))

structure_data_with_master_prompt(text, base64_images, llm) ==
    IF llm.kind = "ok" THEN llm.data
    ELSE Dict(KError :> Str(<<ErrorPrefix, Lit(llm.kind)>>))

(***************************************************************************)
(* Post-validation (processor.py:162-174).                                 *)
(***************************************************************************)
RECURSIVE try_formats(_, _)
\* The inner loop: the first format that parses rewrites the value.
try_formats(value, i) ==
    IF i > Len(DateFormats) THEN value
    ELSE LET parsed == strptime(value, DateFormats[i])
         IN  IF parsed.ok THEN strftime_Y_MM_DD(parsed)
             ELSE try_formats(value, i + 1)

IsDateKey(key) == Contains(Lower(key), DateWord)

post_process_and_validate(data) ==
    IF data.kind # "dict" THEN data
    ELSE [data EXCEPT !.fields =
             [key \in DOMAIN data.fields |->
                 LET value == data.fields[key]
                 IN  IF IsDateKey(key) /\ value.t = "str"
                     THEN Str(try_formats(value.s, 1))
                     ELSE value]]

(***************************************************************************)
(* Face location (processor.py:176-193).  For each image: imdecode gave    *)
(* None ("none"), something raised ("raise"), or the cascade reported the  *)
(* regions `faces` (possibly none).                                        *)
(***************************************************************************)
Box(x, y, w, h) == [x |-> x, y |-> y, w |-> w, h |-> h]
NoBox == Box(0, 0, 0, 0)
NoImage == ImageOf(Bytes("none", 0, 0, 0), 0, FALSE)

FaceOutcome(kind, faces) == [kind |-> kind, faces |-> faces]

\* key=lambda f: f[2]*f[3]
Area(f) == f.w * f.h

\* faces[0] without the sort.
first_face(faces) == faces[1]

\* sorted(faces, key=Area, reverse=True)[0]: the sort is stable, so among
\* regions of the largest area the first reported comes first.
largest_face(faces) ==
    LET i == CHOOSE i \in 1..Len(faces) :
                 /\ \A j \in 1..Len(faces) : Area(faces[j]) <= Area(faces[i])
                 /\ \A j \in 1..(i - 1) : Area(faces[j]) < Area(faces[i])
    IN  faces[i]

\* The JPEG of img[y:y+h, x:x+w]; NoFace stands for None.
CropOf(img, box) == [found |-> TRUE, img |-> img, box |-> box]
NoFace == [found |-> FALSE, img |-> NoImage, box |-> NoBox]

RECURSIVE face_loop(_, _, _)
\* The scan from image i on: the crop returned and the images looked at.
face_loop(image_bytes_list, results, i) ==
    IF i > Len(image_bytes_list) THEN [crop |-> NoFace, examined |-> Len(image_bytes_list)]
    ELSE IF results[i].kind = "faces" /\ Len(results[i].faces) > 0
    THEN [crop |-> CropOf(image_bytes_list[i], largest_face(results[i].faces)),
          examined |-> i]
    ELSE face_loop(image_bytes_list, results, i + 1)

detect_and_crop_face(image_bytes_list, results) ==
    face_loop(image_bytes_list, results, 1).crop

(***************************************************************************)
(* Persistence (database.py:42-58): one INSERT ... RETURNING id, committed.*)
(***************************************************************************)
json_dumps(data) == [json |-> data]

\* The insert without conn.commit(): the row is rolled back with the connection.
save_without_commit(rows, dtype, extracted_data, original_images, face_image) == rows

\* id SERIAL PRIMARY KEY (database.py:30): rows are never deleted here.
next_id(rows) == Len(rows) + 1

save_processed_document(rows, dtype, extracted_data, original_images, face_image) ==
    Append(rows, [id |-> next_id(rows),
                  doc_type |-> dtype,
                  extracted_data |-> extracted_data,
                  original_images |-> original_images,
                  face_image |-> face_image])

(***************************************************************************)
(* The task process_documents_task (processor.py:197-238).                 *)
(***************************************************************************)
RECURSIVE Digits(_)
Digits(n) == IF n < 10 THEN <<n>> ELSE Append(Digits(n \div 10), n % 10)

\* a < b for strings of digits, as Python compares str.
LexLess(a, b) ==
    \E i \in 1..(Len(a) + 1) :
        /\ i <= Len(b)
        /\ \A j \in 1..(i - 1) : j <= Len(a) /\ a[j] = b[j]
        /\ (i = Len(a) + 1 \/ (i <= Len(a) /\ a[i] < b[i]))

\* The keys compared as the numbers in them.
KeyLessByNumber(i, j) == i < j

\* Key i stands for f"file_{i}" (app.py:88, app.py:110).
KeyLess(i, j) == LexLess(Digits(i), Digits(j))

\* sorted(file_contents_dict.keys())
sorted_keys(dict) ==
    SortSeq([k \in 1..Cardinality(DOMAIN dict) |-> k - 1], KeyLess)

RECURSIVE decode_loop(_, _, _, _, _)
\* The loop of lines 206-211 from the i-th sorted key on.
decode_loop(dict, keys, i, originals, images) ==
    IF i > Len(keys) THEN [originals |-> originals, images |-> images]
    ELSE LET filename == dict[keys[i]][1]
             file_bytes == dict[keys[i]][2]
         IN  decode_loop(dict, keys, i + 1,
                         Append(originals, file_bytes),
                         images \o process_file_input(file_bytes, filename))

NoInfo == [status |-> "", result |-> 0, error |-> <<>>]

NoImagesError == <<Lit("No valid images could be processed from the provided file(s).")>>

\* raise inside the task: Celery records FAILURE with the exception.
Raise(error, done) ==
    /\ state' = "FAILURE"
    /\ info' = [NoInfo EXCEPT !.error = error]
    /\ pc' = "done"
    /\ events' = events \o done \o <<"FAILURE">>

\* Line 213 without its test.
HasImagesUnchecked(images) == TRUE

\* Whether line 213 lets the run go on.
HasImages(images) == Len(images) > 0

\* Lines 203-214.
DecodeFiles ==
    /\ pc = "decode"
    /\ LET r == decode_loop(file_contents_dict, sorted_keys(file_contents_dict), 1, <<>>, <<>>)
       IN  /\ all_image_bytes' = r.images
           /\ original_images_to_save' = r.originals
           /\ IF HasImages(r.images)
              THEN /\ pc' = "report_ocr"
                   /\ events' = Append(events, "decode")
                   /\ UNCHANGED <<state, info>>
              ELSE Raise(NoImagesError, <<"decode">>)
    /\ UNCHANGED <<request, response, status, file_contents_dict, doc_type, ocr_results,
                   raw_text, llm_response, structured_data, final_data, face_results,
                   face_examined, face_image_bytes, doc_id, documents>>

\* The update_state calls with the validating step left out of the sequence.
ReportSkippingValidation(p) ==
    CASE p = "report_ocr" ->
           [status |-> "Cleaning images & performing high-accuracy OCR...",
            event |-> "PROGRESS:ocr", next |-> "ocr"]
      [] p = "report_structuring" ->
           [status |-> "AI is analyzing and structuring the document...",
            event |-> "PROGRESS:structuring", next |-> "structuring"]
      [] p = "report_validating" ->
           [status |-> "Detecting faces...",
            event |-> "PROGRESS:faces", next |-> "faces"]
      [] p = "report_faces" ->
           [status |-> "Detecting faces...",
            event |-> "PROGRESS:faces", next |-> "faces"]
      [] p = "report_saving" ->
           [status |-> "Saving to database...",
            event |-> "PROGRESS:saving", next |-> "saving"]

\* The five self.update_state calls (lines 216, 219, 226, 229, 232).
ReportAt(p) ==
    CASE p = "report_ocr" ->
           [status |-> "Cleaning images & performing high-accuracy OCR...",
            event |-> "PROGRESS:ocr", next |-> "ocr"]
      [] p = "report_structuring" ->
           [status |-> "AI is analyzing and structuring the document...",
            event |-> "PROGRESS:structuring", next |-> "structuring"]
      [] p = "report_validating" ->
           [status |-> "Validating and formatting final data...",
            event |-> "PROGRESS:validating", next |-> "validating"]
      [] p = "report_faces" ->
           [status |-> "Detecting faces...",
            event |-> "PROGRESS:faces", next |-> "faces"]
      [] p = "report_saving" ->
           [status |-> "Saving to database...",
            event |-> "PROGRESS:saving", next |-> "saving"]

ReportPoints == {"report_ocr", "report_structuring", "report_validating",
                 "report_faces", "report_saving"}

BackendError == <<Lit("Error while writing to the result backend")>>

\* self.update_state(state='PROGRESS', meta=...): stores the state, or raises
\* when the result backend cannot be written.
UpdateState ==
    /\ pc \in ReportPoints
    /\ \E stored \in BOOLEAN :
          IF stored
          THEN /\ state' = "PROGRESS"
               /\ status' = ReportAt(pc).status
               /\ pc' = ReportAt(pc).next
               /\ events' = Append(events, ReportAt(pc).event)
               /\ UNCHANGED info
          ELSE /\ Raise(BackendError, <<>>)
               /\ UNCHANGED status
    /\ UNCHANGED <<request, response, file_contents_dict, doc_type, all_image_bytes,
                   original_images_to_save, ocr_results, raw_text, llm_response,
                   structured_data, final_data, face_results, face_examined,
                   face_image_bytes, doc_id, documents>>

\* Line 217, the recogniser having answered `results`.
ExtractTextWith(results) ==
    /\ pc = "ocr"
    /\ ocr_results' = results
    /\ raw_text' = extract_text_with_paddleocr(all_image_bytes, results)
    /\ pc' = "report_structuring"
    /\ events' = Append(events, "ocr")
    /\ UNCHANGED <<request, response, state, status, info, file_contents_dict, doc_type,
                   all_image_bytes, original_images_to_save, llm_response,
                   structured_data, final_data, face_results, face_examined,
                   face_image_bytes, doc_id, documents>>

\* Lines 220-221, the endpoint having answered `llm`.
StructureWith(llm) ==
    /\ pc = "structuring"
    /\ llm_response' = llm
    /\ structured_data' =
          structure_data_with_master_prompt(
              raw_text, [i \in 1..Len(all_image_bytes) |-> b64encode(all_image_bytes[i])], llm)
    /\ pc' = "check_error"
    /\ events' = Append(events, "structuring")
    /\ UNCHANGED <<request, response, state, status, info, file_contents_dict, doc_type,
                   all_image_bytes, original_images_to_save, ocr_results, raw_text,
                   final_data, face_results, face_examined, face_image_bytes, doc_id,
                   documents>>

TypeError == <<Lit("TypeError")>>

\* str(e) of the exception lines 223-224 raise, <<>> when they raise none:
\* `in` on None or a number is a TypeError, and so is ["error"] on a str or a list.
error_check(data) ==
    IF data.kind = "dict"
    THEN IF KError \in DOMAIN data.fields
         THEN (IF data.fields[KError].t = "str" THEN data.fields[KError].s
               ELSE <<Lit("None")>>)
         ELSE <<>>
    ELSE IF data.kind \in {"null", "num"} \/ data.has_error THEN TypeError
    ELSE <<>>

\* Lines 223-224.
CheckError ==
    /\ pc = "check_error"
    /\ IF error_check(structured_data) # <<>>
       THEN Raise(error_check(structured_data), <<>>)
       ELSE /\ pc' = "report_validating"
            /\ UNCHANGED <<state, info, events>>
    /\ UNCHANGED <<request, response, status, file_contents_dict, doc_type,
                   all_image_bytes, original_images_to_save, ocr_results, raw_text,
                   llm_response, structured_data, final_data, face_results,
                   face_examined, face_image_bytes, doc_id, documents>>

\* Line 227: the dict is rewritten in place, final_data is the same object.
PostProcess ==
    /\ pc = "validating"
    /\ final_data' = post_process_and_validate(structured_data)
    /\ structured_data' = final_data'
    /\ pc' = "report_faces"
    /\ events' = Append(events, "validating")
    /\ UNCHANGED <<request, response, state, status, info, file_contents_dict, doc_type,
                   all_image_bytes, original_images_to_save, ocr_results, raw_text,
                   llm_response, face_results, face_examined, face_image_bytes, doc_id,
                   documents>>

\* Line 230, imdecode and the cascade having answered `results`.
DetectFaceWith(results) ==
    /\ pc = "faces"
    /\ face_results' = results
    /\ face_image_bytes' = detect_and_crop_face(all_image_bytes, results)
    /\ face_examined' = face_loop(all_image_bytes, results, 1).examined
    /\ pc' = "report_saving"
    /\ events' = Append(events, "faces")
    /\ UNCHANGED <<request, response, state, status, info, file_contents_dict, doc_type,
                   all_image_bytes, original_images_to_save, ocr_results, raw_text,
                   llm_response, structured_data, final_data, doc_id, documents>>

DatabaseError == <<Lit("OperationalError")>>

\* Lines 233-234: the insert commits and returns the new id, or psycopg2
\* raises before the commit and no row is kept.
SaveDocument ==
    /\ pc = "saving"
    /\ \E committed \in BOOLEAN :
          IF committed
          THEN /\ documents' = save_processed_document(
                       documents, doc_type, json_dumps(final_data),
                       original_images_to_save, face_image_bytes)
               /\ doc_id' = next_id(documents)
               /\ pc' = "return"
               /\ events' = Append(events, "saving")
               /\ UNCHANGED <<state, info>>
          ELSE /\ Raise(DatabaseError, <<>>)
               /\ UNCHANGED <<documents, doc_id>>
    /\ UNCHANGED <<request, response, status, file_contents_dict, doc_type,
                   all_image_bytes, original_images_to_save, ocr_results, raw_text,
                   llm_response, structured_data, final_data, face_results,
                   face_examined, face_image_bytes>>

\* Line 236: the task returns and Celery records SUCCESS with the result.
TaskReturn ==
    /\ pc = "return"
    /\ state' = "SUCCESS"
    /\ info' = [NoInfo EXCEPT !.status = "Task Complete!", !.result = doc_id]
    /\ pc' = "done"
    /\ events' = Append(events, "SUCCESS")
    /\ UNCHANGED <<request, response, status, file_contents_dict, doc_type,
                   all_image_bytes, original_images_to_save, ocr_results, raw_text,
                   llm_response, structured_data, final_data, face_results,
                   face_examined, face_image_bytes, doc_id, documents>>

(***************************************************************************)
(* The run's surroundings in the pipeline specification.  The recogniser   *)
(* and the cascade are functions of the image; here each is one function   *)
(* chosen so that every kind of outcome occurs.  SpecOcr and SpecFace let  *)
(* them answer anything.                                                   *)
(***************************************************************************)
LineSurname == OcrLine("SURNAME DOE", 95)
LineNumber == OcrLine("P1234567", 81)
LineSmudge == OcrLine("5mudge", 80)
LineNoise == OcrLine("~~", 42)
OcrLines == {LineSurname, LineNumber, LineSmudge, LineNoise}

\* preprocess_image_for_ocr then paddle_ocr.ocr (processor.py:84-85).
PipelineOcr(img) ==
    IF ~img.norm THEN OcrOutcome(FALSE, "raise", <<>>)
    ELSE IF img.page = 0 THEN OcrOutcome(TRUE, "lines", <<LineSurname, LineSmudge, LineNumber>>)
    ELSE IF img.page = 1 THEN OcrOutcome(FALSE, "lines", <<LineNoise>>)
    ELSE OcrOutcome(TRUE, "none", <<>>)

\* cv2.imdecode then FACE_CASCADE.detectMultiScale (processor.py:181-184).
PipelineFaces(img) ==
    IF ~img.norm THEN FaceOutcome("none", <<>>)
    ELSE IF img.page = 0 THEN FaceOutcome("faces", <<Box(10, 10, 30, 30), Box(60, 20, 40, 50)>>)
    ELSE IF img.page = 1 THEN FaceOutcome("faces", <<>>)
    ELSE FaceOutcome("faces", <<Box(5, 5, 32, 32)>>)

JpgName == <<"i", "d", ".", "j", "p", "g">>
PdfName == <<"a", ".", "P", "D", "F">>
NoName == <<>>

PhotoBytes == Bytes("image", 1, 0, 0)
JunkBytes == Bytes("junk", 2, 0, 0)
PdfBytes == UNION {{Bytes("pdf", 3, p, b) : b \in 0..p} : p \in 1..MaxPages}

\* The files a run is given: <<filename, bytes>>.
PipelineFiles ==
    {<<JpgName, PhotoBytes>>, <<JpgName, JunkBytes>>, <<PdfName, JunkBytes>>}
    \cup {<<PdfName, b>> : b \in PdfBytes}

KDate == <<"E", "x", "p", "_", "D", "A", "T", "E">>
KName == <<"n", "a", "m", "e">>

\* 15/03/1990
SlashDate == <<Num(15, 2), Lit("/"), Num(3, 2), Lit("/"), Num(1990, 4)>>

\* What the model's JSON can parse to in the pipeline specification.
PipelineData ==
    { Dict(KDate :> Str(SlashDate) @@ KName :> Str(<<Lit("DOE")>>)),
      Dict(KError :> Str(<<Lit("unreadable document")>>)),
      Dict(KError :> Null),
      Dict(<<>>),
      NonDict("null", FALSE),
      NonDict("list", FALSE),
      NonDict("str", TRUE) }

PipelineLlm ==
    {LlmResponse(k, Dict(<<>>)) : k \in LlmFailures}
    \cup {LlmResponse("ok", d) : d \in PipelineData}

ExtractText ==
    ExtractTextWith([k \in 1..Len(all_image_bytes) |-> PipelineOcr(all_image_bytes[k])])

StructureData == \E llm \in PipelineLlm : StructureWith(llm)

DetectFace ==
    DetectFaceWith([k \in 1..Len(all_image_bytes) |-> PipelineFaces(all_image_bytes[k])])

NoRequest == [route |-> "none", method |-> "", doc_type |-> [present |-> FALSE, value |-> ""],
              files |-> <<>>]

\* The worker at position p of a run, with the locals the earlier lines set
\* and every later one still unset.
TaskAt(p, st, stat, evs, files, images, originals, llm, data) ==
    /\ state = st
    /\ pc = p
    /\ status = stat
    /\ events = evs
    /\ file_contents_dict = files
    /\ all_image_bytes = images
    /\ original_images_to_save = originals
    /\ llm_response = llm
    /\ structured_data = data
    /\ info = NoInfo
    /\ ocr_results = <<>>
    /\ raw_text = <<>>
    /\ final_data = Dict(<<>>)
    /\ face_results = <<>>
    /\ face_examined = 0
    /\ face_image_bytes = NoFace
    /\ doc_id = 0
    /\ documents = <<>>

NoLlm == LlmResponse("none", Dict(<<>>))

\* A dispatched run: Celery holds the arguments, the worker has not started.
Init ==
    /\ request = NoRequest
    /\ response = "none"
    /\ \E n \in 1..MaxFiles : \E files \in [0..(n - 1) -> PipelineFiles] :
          TaskAt("decode", "PENDING", "", <<>>, files, <<>>, <<>>, NoLlm, Dict(<<>>))
    /\ doc_type = "passport"

Next ==
    \/ DecodeFiles
    \/ UpdateState
    \/ ExtractText
    \/ StructureData
    \/ CheckError
    \/ PostProcess
    \/ DetectFace
    \/ SaveDocument
    \/ TaskReturn

Spec == Init /\ [][Next]_vars

(***************************************************************************)
(* Properties of the pipeline (Spec).                                      *)
(***************************************************************************)
Terminal == {"SUCCESS", "FAILURE"}

\* C1: the insert has been performed exactly once when the run is in
\* SUCCESS, and not at all when it is in FAILURE or has not passed the
\* saving step; the row of a successful run is the complete record and the
\* run's result is its id.
C1_OneRecordIffSuccess ==
    /\ state = "SUCCESS" =>
          /\ Len(documents) = 1
          /\ documents[1] = [id |-> info.result,
                             doc_type |-> doc_type,
                             extracted_data |-> json_dumps(final_data),
                             original_images |-> original_images_to_save,
                             face_image |-> face_image_bytes]
    /\ state = "FAILURE" => Len(documents) = 0
    /\ (state \in {"PENDING", "PROGRESS"} /\ pc # "return") => Len(documents) = 0
    /\ pc = "return" => Len(documents) = 1

C1_Witness == state = "SUCCESS" /\ Len(documents) = 1 /\ info.result = 1

FixedOrder ==
    <<"decode", "PROGRESS:ocr", "ocr", "PROGRESS:structuring", "structuring",
      "PROGRESS:validating", "validating", "PROGRESS:faces", "faces",
      "PROGRESS:saving", "saving">>

IsPrefix(s, full) == Len(s) <= Len(full) /\ \A i \in 1..Len(s) : s[i] = full[i]

\* The stages and reports of the run so far, its terminal state left out.
StagesDone ==
    IF state \in Terminal THEN SubSeq(events, 1, Len(events) - 1) ELSE events

StageOrderOK ==
    /\ IsPrefix(StagesDone, FixedOrder)
    /\ state \in Terminal => (Len(events) > 0 /\ events[Len(events)] = state)
    /\ state = "SUCCESS" => StagesDone = FixedOrder
    /\ state = "PENDING" => Len(StagesDone) <= 1
    /\ state = "PROGRESS" => Len(StagesDone) >= 2

\* A step from a terminal state changes neither the state nor what was done.
TerminalStays ==
    state \in Terminal =>
        (state' = state /\ info' = info /\ events' = events /\ documents' = documents)

\* C2: the stages executed and the states reported form a prefix of the
\* fixed order, followed by one terminal state; SUCCESS comes only after
\* every stage, persistence included; and a run in SUCCESS or FAILURE never
\* changes again.
C2_FixedStageOrder ==
    /\ []StageOrderOK
    /\ [][TerminalStays]_vars

C2_Witness == state = "SUCCESS" /\ StagesDone = FixedOrder

\* No submitted file yields an image.
NoFileYieldsImage ==
    \A k \in DOMAIN file_contents_dict :
        process_file_input(file_contents_dict[k][2], file_contents_dict[k][1]) = <<>>

\* C3: when no submitted file yields an image the run ends in FAILURE right
\* after decoding: no PROGRESS is reported and the recogniser, the model
\* call, the face locator and the insert are not invoked.
C3_NoImagesFailsFast ==
    (NoFileYieldsImage /\ pc # "decode") =>
        /\ state = "FAILURE"
        /\ pc = "done"
        /\ events = <<"decode", "FAILURE">>
        /\ info.error = NoImagesError
        /\ status = ""
        /\ ocr_results = <<>> /\ raw_text = <<>>
        /\ llm_response = NoLlm
        /\ face_examined = 0 /\ face_results = <<>>
        /\ documents = <<>>

C3_Witness ==
    /\ NoFileYieldsImage
    /\ state = "FAILURE"
    /\ Cardinality(DOMAIN file_contents_dict) = 2

\* C4: when the endpoint fails, the structuring engine returns a dict with
\* an "error" entry naming the failure, the run ends in FAILURE with that
\* text, and validation, face detection and the insert are not executed.
C4_EngineFailureAborts ==
    llm_response.kind \in LlmFailures =>
        /\ structured_data.kind = "dict"
        /\ KError \in DOMAIN structured_data.fields
        /\ structured_data.fields[KError].t = "str"
        /\ Lit(llm_response.kind) \in Range(structured_data.fields[KError].s)
        /\ pc \in {"check_error", "done"}
        /\ pc = "done" =>
              /\ state = "FAILURE"
              /\ Lit(llm_response.kind) \in Range(info.error)
        /\ Range(events) \cap {"PROGRESS:validating", "validating", "PROGRESS:faces",
                               "faces", "PROGRESS:saving", "saving", "SUCCESS"} = {}
        /\ face_examined = 0
        /\ documents = <<>>

C4_Witness ==
    /\ llm_response.kind = "HTTPError"
    /\ state = "FAILURE"
    /\ events[Len(events) - 1] = "structuring"

(***************************************************************************)
(* SpecOcr: extract_text_with_paddleocr on every batch of up to            *)
(* MaxOcrImages images, the enhancer and the recogniser answering anything.*)
(***************************************************************************)
\* The recogniser raises, returns nothing, or returns up to MaxLines lines.
\* An image the enhancer failed on is recognised from its original bytes;
\* for those the answers are kept to one line at most.
OcrOutcomes ==
    {OcrOutcome(e, k, <<>>) : e \in BOOLEAN, k \in {"raise", "none"}}
    \cup {OcrOutcome(TRUE, "lines", ls) : ls \in InjSeqsUpTo(OcrLines, MaxLines)}
    \cup {OcrOutcome(FALSE, "lines", ls) : ls \in InjSeqsUpTo(OcrLines, 1)}

\* The n pages of one rendered PDF.
PageBatch(n) == [k \in 1..n |-> ImageOf(Bytes("pdf", 3, n, 0), k, TRUE)]

InitOcr ==
    /\ request = NoRequest
    /\ response = "none"
    /\ \E n \in 0..MaxOcrImages :
          TaskAt("ocr", "PROGRESS", ReportAt("report_ocr").status,
                 <<"decode", "PROGRESS:ocr">>, <<>>, PageBatch(n), <<>>, NoLlm, Dict(<<>>))
    /\ doc_type = "passport"

ExtractTextAny ==
    /\ pc = "ocr"
    /\ \E results \in [1..Len(all_image_bytes) -> OcrOutcomes] : ExtractTextWith(results)

NextOcr == ExtractTextAny

SpecOcr == InitOcr /\ [][NextOcr]_vars

OcrDone == pc = "report_structuring"

IsMarker(tok) == tok.k = "marker"
IsLine(tok) == tok.k = "line"

\* Where marker k stands in the text (0 when it does not occur).
MarkerAt(text, k) ==
    IF \E i \in 1..Len(text) : text[i] = Marker(k)
    THEN CHOOSE i \in 1..Len(text) : text[i] = Marker(k)
    ELSE 0

\* The text between marker k and the next marker, or the end.
Segment(text, k, n) ==
    SubSeq(text, MarkerAt(text, k) + 1,
           IF k < n THEN MarkerAt(text, k + 1) - 1 ELSE Len(text))

\* The recognised lines of an outcome ("raise" and "none" carry none).
TextsOf(lines) == [i \in 1..Len(lines) |-> lines[i].text]

\* C6: the text holds exactly n page markers, numbered 1..n in increasing
\* order, whatever happened for each image, and the lines that follow
\* marker k are lines recognised on image k.
C6_OneMarkerPerImage ==
    OcrDone =>
        LET n == Len(all_image_bytes)
        IN  /\ SelectSeq(raw_text, IsMarker) = [k \in 1..n |-> Marker(k)]
            /\ n > 0 => raw_text[1] = Marker(1)
            /\ \A k \in 1..n :
                  \A tok \in Range(SelectSeq(Segment(raw_text, k, n), IsLine)) :
                      tok.s \in Range(TextsOf(ocr_results[k].lines))

C6_Witness ==
    /\ OcrDone
    /\ Len(all_image_bytes) = 2
    /\ ocr_results[1].kind = "raise"
    /\ ~ocr_results[2].enhanced
    /\ ocr_results[2].lines = <<LineSurname>>

StrictlyAbove80(line) == line.conf > 80

\* C7: the lines after marker k are exactly the recognised lines of image k
\* whose confidence is strictly greater than 0.80, in the recogniser's
\* order; no line of confidence 0.80 or less is in the text.
C7_OnlyHighConfidenceLines ==
    OcrDone =>
        LET n == Len(all_image_bytes)
        IN  /\ \A k \in 1..n :
                  SelectSeq(Segment(raw_text, k, n), IsLine) =
                      [i \in 1..Len(SelectSeq(ocr_results[k].lines, StrictlyAbove80)) |->
                          LineTok(SelectSeq(ocr_results[k].lines, StrictlyAbove80)[i].text)]
            /\ \A tok \in Range(raw_text) :
                  IsLine(tok) => \A l \in OcrLines : l.text = tok.s => l.conf > 80

C7_Witness ==
    /\ OcrDone
    /\ Len(all_image_bytes) = 2
    /\ ocr_results[1].lines = <<LineSmudge, LineNumber>>
    /\ ocr_results[2].lines = <<LineNumber, LineSurname>>
    /\ raw_text = <<Marker(1), LineTok("P1234567"),
                    Marker(2), LineTok("P1234567"), Newline, LineTok("SURNAME DOE")>>

(***************************************************************************)
(* SpecFace: detect_and_crop_face on every batch of up to MaxFaceImages    *)
(* images, imdecode and the cascade answering anything.                    *)
(***************************************************************************)
FaceBoxes == {Box(10, 10, 30, 30), Box(50, 10, 30, 40), Box(5, 60, 40, 30)}

FaceOutcomes ==
    {FaceOutcome("none", <<>>), FaceOutcome("raise", <<>>)}
    \cup {FaceOutcome("faces", fs) : fs \in SeqsUpTo(FaceBoxes, MaxFaces)}

InitFace ==
    /\ request = NoRequest
    /\ response = "none"
    /\ \E n \in 0..MaxFaceImages :
          TaskAt("faces", "PROGRESS", ReportAt("report_faces").status,
                 SubSeq(FixedOrder, 1, 8), <<>>, PageBatch(n), <<>>, NoLlm, Dict(<<>>))
    /\ doc_type = "passport"

DetectFaceAny ==
    /\ pc = "faces"
    /\ \E results \in [1..Len(all_image_bytes) -> FaceOutcomes] : DetectFaceWith(results)

NextFace == DetectFaceAny

SpecFace == InitFace /\ [][NextFace]_vars

FaceDone == pc = "report_saving"

\* The images that decoded and on which the cascade reported a region.
Detections == {i \in 1..Len(all_image_bytes) :
                  face_results[i].kind = "faces" /\ Len(face_results[i].faces) > 0}

\* C9: the result is the no-face result or one crop; a crop comes from the
\* earliest image with a detection, its region is among those reported for
\* that image and no other is of larger area, and no later image is looked
\* at; without any detection the result is the no-face result.
C9_LargestFaceOfFirstDetection ==
    FaceDone =>
        IF Detections = {}
        THEN face_image_bytes = NoFace /\ face_examined = Len(all_image_bytes)
        ELSE LET first == CHOOSE i \in Detections : \A j \in Detections : i <= j
             IN  /\ face_image_bytes.found
                 /\ face_image_bytes.img = all_image_bytes[first]
                 /\ face_image_bytes.box \in Range(face_results[first].faces)
                 /\ \A f \in Range(face_results[first].faces) :
                       Area(face_image_bytes.box) >= Area(f)
                 /\ face_examined = first

C9_Witness ==
    /\ FaceDone
    /\ Len(all_image_bytes) = 2
    /\ face_results[1].kind = "raise"
    /\ face_results[2].faces = <<Box(10, 10, 30, 30), Box(50, 10, 30, 40)>>
    /\ face_image_bytes = CropOf(all_image_bytes[2], Box(50, 10, 30, 40))

(***************************************************************************)
(* SpecDate: post_process_and_validate on records of up to MaxFields       *)
(* fields and on values that are not dicts.                                *)
(***************************************************************************)
IsoText(y, m, wm, d, wd) == <<Num(y, 4), Lit("-"), Num(m, wm), Lit("-"), Num(d, wd)>>
DayMonthYear(d, month, y) == <<Num(d, 2), Lit(" "), Lit(month), Lit(" "), Num(y, 4)>>
MonthDayYear(month, d, y) == <<Lit(month), Lit(" "), Num(d, 2), Lit(","), Lit(" "), Num(y, 4)>>
SlashText(a, b, y) == <<Num(a, 2), Lit("/"), Num(b, 2), Lit("/"), Num(y, 4)>>

DateTexts ==
    { IsoText(1990, 3, 2, 15, 2),          \* 1990-03-15
      IsoText(1990, 3, 1, 5, 1),           \* 1990-3-5
      IsoText(2024, 2, 2, 29, 2),          \* 2024-02-29
      IsoText(1990, 2, 2, 29, 2),          \* 1990-02-29, no such day
      IsoText(1990, 13, 2, 1, 2),          \* 1990-13-01, no such month
      DayMonthYear(15, "Mar", 1990),       \* 15 Mar 1990
      DayMonthYear(15, "March", 1990),     \* 15 March 1990, %b does not match
      DayMonthYear(5, "MAY", 2024),        \* 05 MAY 2024
      MonthDayYear("March", 15, 1990),     \* March 15, 1990
      MonthDayYear("Mar", 15, 1990),       \* Mar 15, 1990, %B does not match
      MonthDayYear("december", 31, 2024),  \* december 31, 2024
      SlashDate,                           \* 15/03/1990
      SlashText(3, 15, 1990),              \* 03/15/1990, month first
      SlashText(3, 4, 1990),               \* 03/04/1990, day first wins
      SlashText(31, 2, 1990),              \* 31/02/1990, no such day
      SlashText(29, 2, 2024),              \* 29/02/2024
      <<Num(1990, 4), Lit("-"), Lit("MM"), Lit("-"), Lit("DD")>>,
      <<Lit("n"), Lit("/"), Lit("a")>>,
      <<>> }

FieldValues == {Str(s) : s \in DateTexts} \cup {Null, Number}

KBirth == <<"d", "a", "t", "e", "_", "o", "f", "_", "b", "i", "r", "t", "h">>
KUpdated == <<"u", "p", "d", "a", "t", "e", "d">>
FieldKeys == {KDate, KBirth, KUpdated, KName}

DateRecords ==
    {Dict(f) : f \in UNION {[keys -> FieldValues] :
                               keys \in {ks \in SUBSET FieldKeys : Cardinality(ks) <= MaxFields}}}
    \cup {NonDict("null", FALSE), NonDict("list", FALSE), NonDict("str", FALSE)}

InitDate ==
    /\ request = NoRequest
    /\ response = "none"
    /\ \E data \in DateRecords :
          TaskAt("validating", "PROGRESS", ReportAt("report_validating").status,
                 SubSeq(FixedOrder, 1, 6), <<>>, PageBatch(1), <<>>,
                 LlmResponse("ok", data), data)
    /\ doc_type = "passport"

NextDate == PostProcess

SpecDate == InitDate /\ [][NextDate]_vars

Validated == pc = "report_faces"

\* The date a text denotes under the first of the five formats that parses it.
FirstParse(text) ==
    LET parses == {i \in 1..Len(DateFormats) : strptime(text, DateFormats[i]).ok}
    IN  IF parses = {} THEN NoDate
        ELSE strptime(text, DateFormats[CHOOSE i \in parses : \A j \in parses : i <= j])

\* YYYY-MM-DD with numeric month and day.
IsoForm(date) == <<Num(date.y, 4), Lit("-"), Num(date.m, 2), Lit("-"), Num(date.d, 2)>>

\* C5: after post-validation every string field whose name contains "date"
\* holds the YYYY-MM-DD form of the date its value denotes under the first
\* format that parses it, or its original string when no format parses.
C5_DatesBecomeIso ==
    (Validated /\ llm_response.data.kind = "dict") =>
        \A key \in DOMAIN llm_response.data.fields :
            LET value == llm_response.data.fields[key]
            IN  (Contains(Lower(key), DateWord) /\ value.t = "str") =>
                    final_data.fields[key] =
                        Str(IF FirstParse(value.s).ok THEN IsoForm(FirstParse(value.s))
                            ELSE value.s)

\* C8: post-validation applied to its own output returns that output.
C8_PostValidationIdempotent ==
    Validated => post_process_and_validate(final_data) = final_data

C8_Witness ==
    /\ Validated
    /\ KDate \in DOMAIN final_data.fields
    /\ llm_response.data.fields[KDate] = Str(SlashText(3, 4, 1990))
    /\ final_data.fields[KDate] # llm_response.data.fields[KDate]

(***************************************************************************)
(* SpecWeb: the two submission routes of app.py.  A request carries the    *)
(* form's doc_type (present or not) and the file parts of the route's      *)
(* field, each <<filename, bytes>>; a browser sends an unnamed part when   *)
(* no file was chosen.                                                     *)
(***************************************************************************)
FormValue(present, value) == [present |-> present, value |-> value]

Request(route, method, dtype, files) ==
    [route |-> route, method |-> method, doc_type |-> dtype, files |-> files]

\* Python's truth of request.form.get('doc_type'): None and '' are false.
Truthy(field) == field.present /\ field.value # ""

\* all(f.filename == '' for f in files)
AllUnnamed(files) == \A i \in 1..Len(files) : files[i][1] = NoName

\* {f"file_{i}": (f.filename, f.read()) for i, f in enumerate(files)}
contents_dict(files) == [i \in 0..(Len(files) - 1) |-> files[i + 1]]

\* The test of line 83 without its doc_type part.
index_rejects_files_only(req) ==
    Len(req.files) = 0 \/ AllUnnamed(req.files)

\* Line 83: whether index() flashes and redirects back.
index_rejects(req) ==
    ~Truthy(req.doc_type) \/ Len(req.files) = 0 \/ AllUnnamed(req.files)

\* Lines 101 and 107: the answer of api_extract() when it refuses, "" otherwise.
api_refusal(req) ==
    IF Len(req.files) = 0 THEN "400 No 'files' part in the request"
    ELSE IF Len(req.files) = 0 \/ AllUnnamed(req.files) THEN "400 No selected files"
    ELSE ""

\* request.form.get('doc_type', 'Unknown')
api_doc_type(req) == IF req.doc_type.present THEN req.doc_type.value ELSE "Unknown"

\* process_documents_task.delay(file_contents_dict, doc_type)
Delay(files, dtype) ==
    /\ state' = "PENDING"
    /\ pc' = "decode"
    /\ file_contents_dict' = contents_dict(files)
    /\ doc_type' = dtype

\* app.py:76-95.
index ==
    /\ response = "none"
    /\ request.route = "index"
    /\ IF request.method = "POST"
       THEN IF index_rejects(request)
            THEN /\ response' = "302 index"
                 /\ UNCHANGED <<state, pc, file_contents_dict, doc_type>>
            ELSE /\ Delay(request.files, request.doc_type.value)
                 /\ response' = "302 processing"
       ELSE /\ response' = "200 index.html"
            /\ UNCHANGED <<state, pc, file_contents_dict, doc_type>>
    /\ UNCHANGED <<request, status, info, all_image_bytes, original_images_to_save,
                   ocr_results, raw_text, llm_response, structured_data, final_data,
                   face_results, face_examined, face_image_bytes, doc_id, documents,
                   events>>

\* app.py:98-120.
api_extract ==
    /\ response = "none"
    /\ request.route = "api"
    /\ IF api_refusal(request) # ""
       THEN /\ response' = api_refusal(request)
            /\ UNCHANGED <<state, pc, file_contents_dict, doc_type>>
       ELSE /\ Delay(request.files, api_doc_type(request))
            /\ response' = "202 Processing started."
    /\ UNCHANGED <<request, status, info, all_image_bytes, original_images_to_save,
                   ocr_results, raw_text, llm_response, structured_data, final_data,
                   face_results, face_examined, face_image_bytes, doc_id, documents,
                   events>>

WebUploads == {<<NoName, JunkBytes>>, <<JpgName, PhotoBytes>>, <<PdfName, Bytes("pdf", 3, 1, 0)>>}

FormValues == {FormValue(FALSE, ""), FormValue(TRUE, ""), FormValue(TRUE, "passport")}

Requests ==
    {Request(rm[1], rm[2], dtype, files) :
        rm \in {<<"index", "GET">>, <<"index", "POST">>, <<"api", "POST">>},
        dtype \in FormValues,
        files \in SeqsUpTo(WebUploads, MaxFiles)}

InitWeb ==
    /\ request \in Requests
    /\ response = "none"
    /\ TaskAt("idle", "NONE", "", <<>>, <<>>, <<>>, <<>>, NoLlm, Dict(<<>>))
    /\ doc_type = ""

NextWeb == index \/ api_extract

SpecWeb == InitWeb /\ [][NextWeb]_vars

Handled == response # "none" /\ request.method = "POST"
Dispatched == state = "PENDING"

\* No document-type label came with the request.
MissingDocType == ~request.doc_type.present \/ request.doc_type.value = ""

\* No file was supplied: no part at all, or only unnamed ones.
NoFilesSupplied == \A i \in 1..Len(request.files) : request.files[i][1] = NoName

\* C10 as stated: on both routes a request without a document type or
\* without files is rejected and no run is dispatched; a run is dispatched
\* only with a document type and a named file.
C10_RejectsMissingInput ==
    Handled =>
        /\ (MissingDocType \/ NoFilesSupplied) => ~Dispatched
        /\ Dispatched => (~MissingDocType /\ ~NoFilesSupplied)

\* C10 as the code has it: no run is dispatched without a named file on
\* either route, nor without a document type on the web form; the API does
\* not reject a missing document type: it dispatches the run with the label
\* "Unknown" (or the empty label it was sent).
C10_RejectsMissingFilesAndFormType ==
    Handled =>
        /\ NoFilesSupplied => (~Dispatched /\ response \notin {"302 processing", "202 Processing started."})
        /\ (request.route = "index" /\ MissingDocType) => (~Dispatched /\ response = "302 index")
        /\ Dispatched =>
              /\ ~NoFilesSupplied
              /\ request.route = "index" => (~MissingDocType /\ doc_type = request.doc_type.value)
              /\ request.route = "api" =>
                    doc_type = (IF request.doc_type.present THEN request.doc_type.value
                                ELSE "Unknown")
              /\ file_contents_dict = contents_dict(request.files)
        /\ (request.route = "api" /\ ~NoFilesSupplied) => Dispatched

C10_Witness ==
    /\ Handled
    /\ request.route = "api"
    /\ ~request.doc_type.present
    /\ Dispatched
    /\ doc_type = "Unknown"

(***************************************************************************)
(* File decoding on its own (SpecDecode): process_documents_task up to the *)
(* end of its loop over the submitted files (processor.py:203-214), for    *)
(* submissions of up to MaxKeys files, enough for the keys file_10 and     *)
(* file_2 to occur together.  The file under key i carries the identity i. *)
(***************************************************************************)
MaxKeys == 11

\* f.read() of the i-th uploaded file (app.py:88, app.py:110).
Upload(file, i) == <<file[1], [file[2] EXCEPT !.id = i]>>

\* Any files for a short submission; for a long one, files of one kind with
\* the file under key j of another.
InitDecode ==
    /\ request = NoRequest
    /\ response = "none"
    /\ doc_type = "passport"
    /\ \/ \E n \in 1..MaxFiles : \E files \in [0..(n - 1) -> PipelineFiles] :
             TaskAt("decode", "PENDING", "", <<>>,
                    [i \in 0..(n - 1) |-> Upload(files[i], i)],
                    <<>>, <<>>, NoLlm, Dict(<<>>))
       \/ \E n \in 1..MaxKeys : \E j \in 0..(n - 1) : \E a, b \in PipelineFiles :
             TaskAt("decode", "PENDING", "", <<>>,
                    [i \in 0..(n - 1) |-> Upload(IF i = j THEN a ELSE b, i)],
                    <<>>, <<>>, NoLlm, Dict(<<>>))

NextDecode == DecodeFiles

SpecDecode == InitDecode /\ [][NextDecode]_vars

Decoded == pc # "decode"

Submitted == Cardinality(DOMAIN file_contents_dict)

\* The key in position k when the keys file_0 .. file_(n-1) are put in
\* lexicographic order: the one with k - 1 keys before it.
KeyInPosition(k) ==
    CHOOSE i \in DOMAIN file_contents_dict :
        Cardinality({j \in DOMAIN file_contents_dict : LexLess(Digits(j), Digits(i))}) = k - 1

FileInPosition(k) == file_contents_dict[KeyInPosition(k)]

Paginated(file) == EndsWith(Lower(file[1]), PdfSuffix)

\* A paginated file whose rendering raises nowhere.
Renders(file) == file[2].kind = "pdf" /\ file[2].bad = 0

\* Images of a file as stated: every page of a paginated file, none when it
\* fails to render, one for any other file.
StatedCount(file) ==
    IF ~Paginated(file) THEN 1
    ELSE IF Renders(file) THEN file[2].pages
    ELSE 0

\* Images of a file as produced: a paginated file gives the pages rendered
\* before the first failure.
ProducedCount(file) ==
    IF ~Paginated(file) THEN 1 ELSE RenderedPages(file[2])

RECURSIVE SumTo(_, _)
SumTo(counts, k) == IF k = 0 THEN 0 ELSE SumTo(counts, k - 1) + counts[k]

\* all_image_bytes is the concatenation, position by position, of counts[k]
\* images of the file in position k: its pages in page order, or the file
\* itself as one image.
ImagesConcatenate(counts) ==
    /\ Len(all_image_bytes) = SumTo(counts, Submitted)
    /\ \A k \in 1..Submitted : \A p \in 1..counts[k] :
          LET img == all_image_bytes[SumTo(counts, k - 1) + p]
          IN  /\ img.src = FileInPosition(k)[2]
              /\ img.page = IF Paginated(FileInPosition(k)) THEN p ELSE 0

\* One original per submitted file, in key order.
OriginalsInKeyOrder ==
    /\ Len(original_images_to_save) = Submitted
    /\ \A k \in 1..Submitted : original_images_to_save[k] = FileInPosition(k)[2]

\* C11: once the files are decoded, the image list is the concatenation in
\* lexicographic key order of each file's images (all pages in page order
\* for a paginated file, one image for any other file, none for a
\* paginated file that fails to render), and original_images holds one
\* entry per submitted file, its original bytes, in the same key order.
C11_ImagesAndOriginalsInKeyOrder ==
    Decoded =>
        /\ OriginalsInKeyOrder
        /\ ImagesConcatenate([k \in 1..Submitted |-> StatedCount(FileInPosition(k))])

\* C11 (amended): once the files are decoded, the image list is the
\* concatenation in lexicographic key order of each file's images (for a
\* paginated file the pages rendered before the first rendering failure, in
\* page order: all of them when none fails, none when the document does not
\* open; one image for any other file), and original_images holds one entry
\* per submitted file, its original bytes, in the same key order.
C11_RenderedPagesAndOriginalsInKeyOrder ==
    Decoded =>
        /\ OriginalsInKeyOrder
        /\ ImagesConcatenate([k \in 1..Submitted |-> ProducedCount(FileInPosition(k))])

\* A decoded submission in which lexicographic and numeric key order differ
\* (file_10 comes third), one paginated file stopped rendering after its
\* first page, and there are more images than originals.
C11_Witness ==
    /\ Decoded
    /\ Submitted > 10
    /\ KeyInPosition(3) = 10
    /\ original_images_to_save[3].id = 10
    /\ \E k \in 1..Submitted :
          /\ Paginated(FileInPosition(k))
          /\ ~Renders(FileInPosition(k))
          /\ ProducedCount(FileInPosition(k)) = 1
    /\ Len(all_image_bytes) > Len(original_images_to_save)

====
